---- MODULE Spec2Model ----
(***************************************************************************)
(* Model of assignment_4/grd_functions.py: Sentinel-1 GRD preprocessing.   *)
(*                                                                         *)
(*   load_sentinel1_data, parse_thermal_noise_removal_lut and              *)
(*   parse_radiometric_calibration_lut walk one directory of a SAFE        *)
(*   product and build a band -> array mapping; apply_correction           *)
(*   (called by remove_thermal_noise and radiometric_calibration)          *)
(*   interpolates a sparse lookup table onto the image grid and applies    *)
(*   a pixel-wise formula per band.                                        *)
(*                                                                         *)
(* Names are sequences of one-character strings, so that lower(),          *)
(* startswith(), endswith() and the substring test are computed.  Array    *)
(* values are exact rationals <<numerator, denominator>>; the results of   *)
(* a floating-point division by zero (inf, -inf, nan) have denominator 0.  *)
(***************************************************************************)
EXTENDS Integers, Sequences, FiniteSets, TLC

VARIABLES
    fn,                   \* the function that was called
    pc,                   \* position of the call in the function's code
    \* --- directory walk (loader and the two LUT parsers) ---
    folder,               \* the directory the function reads: [exists, files, unreadable]
    representation_type,  \* argument of parse_radiometric_calibration_lut
    io,                   \* file-system accesses made so far, in order
    xml_files,            \* files selected by the listing filter, not yet visited
    visited,              \* <<file, band_name>> of the files whose band was resolved, in order
    lut_dict,             \* band -> parsed array (lut_dict / data_vars of the source)
    \* --- apply_correction ---
    type,                 \* correction-type tag
    ds,                   \* raster dataset: [bands, H, W, dtype, data]
    lut_ds,               \* LUT dataset: [bands, line, pixel, data]
    todo,                 \* bands of list(ds.keys()) not yet processed
    lut_interp,           \* band -> interpolated LUT on the image grid
    corrected_dict,       \* band -> corrected array
    result                \* the exception raised or the dataset returned

vars == <<fn, pc, folder, representation_type, io, xml_files, visited, lut_dict,
          type, ds, lut_ds, todo, lut_interp, corrected_dict, result>>

walkVars == <<folder, representation_type, io, xml_files, visited, lut_dict>>
corrVars == <<type, ds, lut_ds, todo, lut_interp, corrected_dict>>

----------------------------------------------------------------------------
(* Strings                                                                 *)

\* str.lower() on one character of the alphabet the names are written in.
LowerChar(c) ==
    CASE c = "V" -> "v"
      [] c = "H" -> "h"
      [] c = "N" -> "n"
      [] c = "C" -> "c"
      [] c = "X" -> "x"
      [] c = "M" -> "m"
      [] c = "L" -> "l"
      [] c = "T" -> "t"
      [] c = "I" -> "i"
      [] c = "F" -> "f"
      [] c = "O" -> "o"
      [] c = "S" -> "s"
      [] c = "E" -> "e"
      [] c = "A" -> "a"
      [] OTHER -> c

\* str.lower()
Lower(s) == [i \in 1..Len(s) |-> LowerChar(s[i])]

\* sub in s
Contains(s, sub) ==
    \E i \in 1..(Len(s) - Len(sub) + 1) : SubSeq(s, i, i + Len(sub) - 1) = sub

\* s.startswith(p)
StartsWith(s, p) == Len(s) >= Len(p) /\ SubSeq(s, 1, Len(p)) = p

\* s.endswith(p)
EndsWith(s, p) == Len(s) >= Len(p) /\ SubSeq(s, Len(s) - Len(p) + 1, Len(s)) = p

\* pol.upper() for the four polarizations
Upper(pol) ==
    CASE pol = <<"v", "v">> -> "VV"
      [] pol = <<"v", "h">> -> "VH"
      [] pol = <<"h", "h">> -> "HH"
      [] pol = <<"h", "v">> -> "HV"

\* polarizations = ["vv", "vh", "hh", "hv"]
polarizations == << <<"v", "v">>, <<"v", "h">>, <<"h", "h">>, <<"h", "v">> >>

Bands == {"VV", "VH", "HH", "HV"}

\* A mutation of the resolver: the last matching polarization wins.
ResolveBandLast(name) ==
    LET hits == {k \in 1..Len(polarizations) : Contains(Lower(name), polarizations[k])}
    IN  IF hits = {} THEN "None"
        ELSE Upper(polarizations[CHOOSE k \in hits : \A j \in hits : j <= k])

\* The loop "for pol in polarizations: if pol in name.lower(): band_name =
\* pol.upper(); break": the first polarization of the list that occurs in the
\* lower-cased name, or None.
ResolveBand(name) ==
    LET hits == {k \in 1..Len(polarizations) : Contains(Lower(name), polarizations[k])}
    IN  IF hits = {} THEN "None"
        ELSE Upper(polarizations[CHOOSE k \in hits : \A j \in hits : k <= j])

----------------------------------------------------------------------------
(* The directory walk: load_sentinel1_data and the two LUT parsers          *)

MaxFiles == 2

\* Names that may lie in <SAFE>/annotation/calibration/.
CalibrationDirNames ==
    { <<"n", "o", "i", "s", "e", "-", "v", "v", ".", "x", "m", "l">>,
      <<"n", "o", "i", "s", "e", "-", "v", "h", ".", "x", "m", "l">>,
      <<"N", "O", "I", "S", "E", "-", "V", "H", ".", "X", "M", "L">>,
      <<"n", "o", "i", "s", "e", "-", "x", "x", ".", "x", "m", "l">>,
      <<"n", "o", "i", "s", "e", "-", "h", "v", "v", ".", "x", "m", "l">>,
      <<"n", "o", "i", "s", "e", "-", "v", "v", ".", "t", "x", "t">>,
      <<"c", "a", "l", "i", "b", "r", "a", "t", "i", "o", "n", "-", "v", "v", ".", "x", "m", "l">>,
      <<"c", "a", "l", "i", "b", "r", "a", "t", "i", "o", "n", "-", "h", "h", ".", "x", "m", "l">>,
      <<"C", "a", "l", "i", "b", "r", "a", "t", "i", "o", "n", "-", "H", "V", ".", "x", "m", "l">>,
      <<"c", "a", "l", "i", "b", "r", "a", "t", "i", "o", "n", "-", "x", "x", ".", "x", "m", "l">>,
      <<"c", "a", "l", "i", "b", "r", "a", "t", "i", "o", "n", "-", "v", "v", "h", ".", "x", "m", "l">>,
      <<"s", "1", "a", "-", "v", "v", ".", "x", "m", "l">> }

\* Names that may lie in <SAFE>/measurement/.
MeasurementDirNames ==
    { <<"s", "1", "a", "-", "v", "v", ".", "t", "i", "f", "f">>,
      <<"s", "1", "a", "-", "v", "h", ".", "t", "i", "f">>,
      <<"S", "1", "A", "-", "H", "H", ".", "t", "i", "f", "f">>,
      <<"s", "1", "a", "-", "x", "x", ".", "t", "i", "f", "f">>,
      <<"s", "1", "a", "-", "h", "h", "v", ".", "t", "i", "f", "f">>,
      <<"s", "1", "a", "-", "v", "v", ".", "T", "I", "F", "F">>,
      <<"s", "1", "a", "-", "h", "v", ".", "x", "m", "l">> }

\* supporting_representation_types=["sigmaNought","betaNought","gamma"]
supporting_representation_types == {"sigmaNought", "betaNought", "gamma"}

\* Values a caller may pass as representation_type.
RepresentationArgs == supporting_representation_types \cup {"sigma0", "SigmaNought"}

WalkFns == {"load_sentinel1_data", "parse_thermal_noise_removal_lut",
            "parse_radiometric_calibration_lut"}

EmptyMap == [b \in {} |-> 0]

NoName == <<>>

\* What a call has produced: the exception raised (with the name its message
\* carries) or the dataset returned.
NoResult == [exc |-> "None", msg |-> "", name |-> NoName, data |-> EmptyMap]

\* A mutation of the listing filter: names without a band are left out as well.
SelectedWithBand(f, name) ==
    /\ ResolveBand(name) # "None"
    /\ CASE f = "load_sentinel1_data" ->
               EndsWith(name, <<".", "t", "i", "f", "f">>) \/ EndsWith(name, <<".", "t", "i", "f">>)
         [] f = "parse_thermal_noise_removal_lut" ->
               StartsWith(Lower(name), <<"n", "o", "i", "s", "e">>)
               /\ EndsWith(Lower(name), <<".", "x", "m", "l">>)
         [] f = "parse_radiometric_calibration_lut" ->
               StartsWith(Lower(name), <<"c", "a", "l", "i", "b", "r", "a", "t", "i", "o", "n">>)
               /\ EndsWith(Lower(name), <<".", "x", "m", "l">>)

\* The listing filter of each function.
Selected(f, name) ==
    CASE f = "load_sentinel1_data" ->
            EndsWith(name, <<".", "t", "i", "f", "f">>) \/ EndsWith(name, <<".", "t", "i", "f">>)
      [] f = "parse_thermal_noise_removal_lut" ->
            StartsWith(Lower(name), <<"n", "o", "i", "s", "e">>)
            /\ EndsWith(Lower(name), <<".", "x", "m", "l">>)
      [] f = "parse_radiometric_calibration_lut" ->
            StartsWith(Lower(name), <<"c", "a", "l", "i", "b", "r", "a", "t", "i", "o", "n">>)
            /\ EndsWith(Lower(name), <<".", "x", "m", "l">>)

\* The record field a parser reads from each vector of a document.
Field(f, rep) ==
    CASE f = "load_sentinel1_data" -> "raster"
      [] f = "parse_thermal_noise_removal_lut" -> "noiseRangeLut"
      [] f = "parse_radiometric_calibration_lut" -> rep

\* The array built from one file: which file it was read from, and which field.
Parsed(f, rep, name) == [file |-> name, field |-> Field(f, rep)]

\* A mutation of the option check: no check, the call goes on to the folder.
AfterEntryUnchecked(f, rep) == "exists"

\* Where a call goes from its entry: parse_radiometric_calibration_lut raises
\* for an unsupported representation_type, before anything else.
AfterEntry(f, rep) ==
    IF f = "parse_radiometric_calibration_lut" /\ rep \notin supporting_representation_types
    THEN "error"
    ELSE "exists"

\* The directories a call may find: missing, or holding at most MaxFiles of the
\* names, some of which cannot be read (open_rasterio or ET.parse raises).
Folders(names) ==
    { [exists |-> FALSE, files |-> {}, unreadable |-> {}] }
    \cup UNION { { [exists |-> TRUE, files |-> F, unreadable |-> U] : U \in SUBSET F } :
                   F \in {G \in SUBSET names : Cardinality(G) <= MaxFiles} }

\* State of the variables of apply_correction while a directory is walked.
CorrIdle ==
    /\ type = "None"
    /\ ds = [bands |-> {}, H |-> 0, W |-> 0, dtype |-> "None", data |-> EmptyMap]
    /\ lut_ds = [bands |-> {}, line |-> <<>>, pixel |-> <<>>, data |-> EmptyMap]
    /\ todo = {}
    /\ lut_interp = EmptyMap
    /\ corrected_dict = EmptyMap

\* A call of one of the three directory-walking functions, at its entry.
InitWalk ==
    /\ fn \in WalkFns
    /\ representation_type \in
         IF fn = "parse_radiometric_calibration_lut" THEN RepresentationArgs ELSE {"None"}
    /\ folder \in
         IF fn = "load_sentinel1_data" THEN Folders(MeasurementDirNames)
                                       ELSE Folders(CalibrationDirNames)
    /\ pc = "entry"
    /\ io = <<>>
    /\ xml_files = {}
    /\ visited = <<>>
    /\ lut_dict = EmptyMap
    /\ result = NoResult
    /\ CorrIdle

Raise(exc, msg, name) ==
    /\ pc' = "error"
    /\ result' = [exc |-> exc, msg |-> msg, name |-> name, data |-> EmptyMap]

\* Entry of the function: the check of representation_type (lines 182-184), which the
\* other two functions do not have.
CheckOption ==
    /\ fn \in WalkFns
    /\ pc = "entry"
    /\ IF AfterEntry(fn, representation_type) = "error"
       THEN Raise("Exception", "representation_type is not supported", NoName)
       ELSE pc' = "exists" /\ result' = result
    /\ UNCHANGED <<fn, walkVars, corrVars>>

\* os.path.exists(<folder>)
CheckFolder ==
    /\ fn \in WalkFns
    /\ pc = "exists"
    /\ io' = Append(io, <<"exists">>)
    /\ IF folder.exists
       THEN pc' = "listdir" /\ result' = result
       ELSE Raise("FileNotFoundError", "folder not found", NoName)
    /\ UNCHANGED <<fn, folder, representation_type, xml_files, visited, lut_dict, corrVars>>

\* os.listdir(<folder>) and the filter on the names
ListFolder ==
    /\ fn \in WalkFns
    /\ pc = "listdir"
    /\ io' = Append(io, <<"listdir">>)
    /\ xml_files' = {f \in folder.files : Selected(fn, f)}
    /\ IF xml_files' = {}
       THEN Raise("FileNotFoundError", "No files found in folder", NoName)
       ELSE pc' = "loop" /\ result' = result
    /\ UNCHANGED <<fn, folder, representation_type, visited, lut_dict, corrVars>>

\* One iteration of the loop over the selected files, in the order os.listdir gave
\* them (any order): resolve the band, read the file, store the array.
VisitFile ==
    /\ fn \in WalkFns
    /\ pc = "loop"
    /\ \E f \in xml_files :
         LET band_name == ResolveBand(f) IN
         /\ xml_files' = xml_files \ {f}
         /\ IF band_name = "None"
            THEN /\ Raise("FileNotFoundError", "Polarization type not found in file name", f)
                 /\ UNCHANGED <<io, visited, lut_dict>>
            ELSE /\ io' = Append(io, <<"read", f>>)
                 /\ visited' = Append(visited, <<f, band_name>>)
                 /\ IF f \in folder.unreadable
                    THEN Raise("ReadError", "file cannot be read", f) /\ lut_dict' = lut_dict
                    ELSE /\ lut_dict' =
                              [b \in DOMAIN lut_dict \cup {band_name} |->
                                 IF b = band_name
                                 THEN Parsed(fn, representation_type, f)
                                 ELSE lut_dict[b]]
                         /\ pc' = pc /\ result' = result
    /\ UNCHANGED <<fn, folder, representation_type, corrVars>>

\* End of the loop: xr.Dataset(lut_dict) is returned.
ReturnDataset ==
    /\ fn \in WalkFns
    /\ pc = "loop"
    /\ xml_files = {}
    /\ pc' = "returned"
    /\ result' = [exc |-> "None", msg |-> "", name |-> NoName, data |-> lut_dict]
    /\ UNCHANGED <<fn, walkVars, corrVars>>

NextWalk == CheckOption \/ CheckFolder \/ ListFolder \/ VisitFile \/ ReturnDataset

SpecWalk == InitWalk /\ [][NextWalk]_vars

----------------------------------------------------------------------------
(* Numbers: exact rationals <<n, d>> with d > 0 in lowest terms; d = 0 holds    *)
(* the non-finite results of a floating-point division: <<1, 0>> is inf,        *)
(* <<-1, 0>> is -inf and <<0, 0>> is nan.                                       *)

Abs(a) == IF a < 0 THEN -a ELSE a

Sign(a) == IF a < 0 THEN -1 ELSE IF a > 0 THEN 1 ELSE 0

RECURSIVE GCD(_, _)
GCD(a, b) == IF b = 0 THEN a ELSE GCD(b, a % b)

Rat(n, d) ==
    IF d = 0 THEN <<Sign(n), 0>>
    ELSE LET g == GCD(Abs(n), Abs(d))
         IN  <<(Sign(d) * n) \div g, Abs(d) \div g>>

Num(a) == <<a, 1>>

IsFinite(x) == x[2] # 0

RAdd(x, y) == Rat(x[1] * y[2] + y[1] * x[2], x[2] * y[2])

RSub(x, y) == Rat(x[1] * y[2] - y[1] * x[2], x[2] * y[2])

RMul(x, y) == Rat(x[1] * y[1], x[2] * y[2])

\* x / y as numpy divides floats: a zero divisor gives inf, -inf or nan.
RDiv(x, y) == Rat(x[1] * y[2], x[2] * y[1])

\* x > 0
RPos(x) == IsFinite(x) /\ x[1] > 0

----------------------------------------------------------------------------
(* lut.interp(line=image_lines, pixel=image_pixels, method='linear',           *)
(* kwargs={"fill_value": "extrapolate"}): one linear interpolation per axis,   *)
(* the line axis first, each extrapolating outside the anchors.                *)

\* numpy.searchsorted(xs, x): the number of anchors below x
SearchSorted(xs, x) == Cardinality({i \in 1..Len(xs) : xs[i] < x})

Clip(a, lo, hi) == IF a < lo THEN lo ELSE IF a > hi THEN hi ELSE a

\* A mutation of the 1-D interpolation: outside the anchors the edge value is kept.
Interp1Clamped(xs, ys, x) ==
    LET hi == Clip(SearchSorted(xs, x), 1, Len(xs) - 1) + 1
        lo == hi - 1
        xc == Clip(x, xs[1], xs[Len(xs)])
        slope == RDiv(RSub(ys[hi], ys[lo]), Num(xs[hi] - xs[lo]))
    IN  RAdd(RMul(slope, Num(xc - xs[lo])), ys[lo])

\* A mutation of the 1-D interpolation: the offset is taken from the upper anchor.
Interp1Shifted(xs, ys, x) ==
    LET hi == Clip(SearchSorted(xs, x), 1, Len(xs) - 1) + 1
        lo == hi - 1
        slope == RDiv(RSub(ys[hi], ys[lo]), Num(xs[hi] - xs[lo]))
    IN  RAdd(RMul(slope, Num(x - xs[hi])), ys[lo])

\* Linear interpolation of the points (xs[i], ys[i]) at x, xs ascending: the
\* segment is the one that holds x, or the first or the last one when x lies
\* outside the anchors.
Interp1(xs, ys, x) ==
    LET hi == Clip(SearchSorted(xs, x), 1, Len(xs) - 1) + 1
        lo == hi - 1
        slope == RDiv(RSub(ys[hi], ys[lo]), Num(xs[hi] - xs[lo]))
    IN  RAdd(RMul(slope, Num(x - xs[lo])), ys[lo])

\* The LUT of one band on the image grid np.arange(H) x np.arange(W).
Interp2(line, pixel, values, H, W) ==
    LET alongLine == [l \in 0..(H - 1) |->
                        [j \in 1..Len(pixel) |->
                            Interp1(line, [i \in 1..Len(line) |-> Num(values[i][j])], l)]]
    IN  [l \in 0..(H - 1) |-> [p \in 0..(W - 1) |-> Interp1(pixel, alongLine[l], p)]]

----------------------------------------------------------------------------
(* The two formulas of apply_correction                                        *)

\* da**2 in the raster's dtype: a uint16 array squares modulo 2^16.
Square(dtype, x) == IF dtype = "uint16" THEN (x * x) % 65536 ELSE x * x

\* xr.where(da**2 - lut_interp > 0, da**2 - lut_interp, 0)
ThermalNoiseRemoval(dtype, x, noise) ==
    LET diff == RSub(Num(Square(dtype, x)), noise)
    IN  IF RPos(diff) THEN diff ELSE Num(0)

\* A mutation of the calibration formula: the input is squared again.
RadiometricSquared(dtype, x, cal) == RDiv(Num(Square(dtype, x)), RMul(cal, cal))

\* da / (lut_interp**2)
Radiometric(dtype, x, cal) == RDiv(Num(x), RMul(cal, cal))

\* A mutation of the dispatch: every tag but thermal_noise_removal calibrates.
BranchElse(tag) ==
    IF tag = "thermal_noise_removal" THEN "thermal" ELSE "radiometric"

\* The if / elif on the correction-type tag: no else branch.
Branch(tag) ==
    CASE tag = "thermal_noise_removal" -> "thermal"
      [] tag = "radiometric_calibration" -> "radiometric"
      [] OTHER -> "none"

\* A mutation of the loop: only the bands the LUT dataset holds are processed.
KeysInLut(rasterBands, lutBands) == rasterBands \cap lutBands

\* list(ds.keys()): every band of the raster, whatever the LUT dataset holds.
Keys(rasterBands, lutBands) == rasterBands

----------------------------------------------------------------------------
(* apply_correction, called by remove_thermal_noise and radiometric_calibration *)

MaxDim == 3
MaxCoord == 2

\* Strictly ascending anchor coordinates: two or three of 0..MaxCoord.
AnchorCoords ==
    { <<a, b>> : <<a, b>> \in {c \in (0..MaxCoord) \X (0..MaxCoord) : c[1] < c[2]} }
    \cup { <<a, b, c>> : <<a, b, c>> \in
             {t \in (0..MaxCoord) \X (0..MaxCoord) \X (0..MaxCoord) :
                t[1] < t[2] /\ t[2] < t[3]} }

BandShift(b) ==
    CASE b = "VV" -> 0 [] b = "VH" -> 1 [] b = "HH" -> 2 [] b = "HV" -> 3

\* Sample intensities (digital numbers) of a band at (l, p) of an image W wide.
Intensity(table, b, l, p, W) ==
    CASE table = "ramp"   -> 2 * (l * W + p + 1) + BandShift(b)
      [] table = "dark"   -> (l + p + BandShift(b)) % 3
      [] table = "bright" -> 255 + l + 2 * p + BandShift(b)

\* Sample LUT values of a band at anchor (i, j), whose coordinates are (line, pixel).
LutValue(table, b, i, j, line, pixel) ==
    CASE table = "ones"  -> 1 + BandShift(b)
      [] table = "plane" -> line + pixel
      [] table = "mixed" -> (3 * i * i + 2 * j + i * j + 2 + BandShift(b)) % 5

\* A raster dataset: every band has the same shape (one xarray.Dataset).
Raster(bands, H, W, dtype, table) ==
    [bands |-> bands, H |-> H, W |-> W, dtype |-> dtype,
     data |-> [b \in bands |->
                 [l \in 0..(H - 1) |-> [p \in 0..(W - 1) |-> Intensity(table, b, l, p, W)]]]]

\* A LUT dataset: every band has the same anchor coordinates.
LutDataset(bands, line, pixel, table) ==
    [bands |-> bands, line |-> line, pixel |-> pixel,
     data |-> [b \in bands |->
                 [i \in 1..Len(line) |->
                    [j \in 1..Len(pixel) |->
                       LutValue(table, b, i, j, line[i], pixel[j])]]]]

\* uint16 is what the loader reads from a GRD product, float64 what a correction
\* returns.
RasterKinds == { <<"uint16", "ramp">>, <<"uint16", "bright">>, <<"float64", "ramp">>,
                 <<"float64", "dark">> }

CorrectionCalls ==
    { <<"remove_thermal_noise", "thermal_noise_removal">>,
      <<"radiometric_calibration", "radiometric_calibration">> }

DirectCalls ==
    { <<"apply_correction", "thermal_noise_removal">>,
      <<"apply_correction", "radiometric_calibration">>,
      <<"apply_correction", "speckle_filter">>,
      <<"apply_correction", "Thermal_Noise_Removal">> }

\* Inputs that vary the numbers: one band, every shape, every anchor layout.
NumericInputs ==
    { <<c, Raster({"VV"}, H, W, k[1], k[2]), LutDataset({"VV"}, line, pixel, t)>> :
        c \in CorrectionCalls, H \in 1..MaxDim, W \in 1..MaxDim, k \in RasterKinds,
        line \in AnchorCoords, pixel \in AnchorCoords, t \in {"ones", "plane", "mixed"} }

\* Inputs that vary the bands: any band set on either side.
BandInputs ==
    { <<c, Raster(rb, 2, 2, "float64", "ramp"), LutDataset(lb, <<0, 1>>, <<0, 1>>, t)>> :
        c \in CorrectionCalls \cup DirectCalls, rb \in SUBSET Bands, lb \in SUBSET Bands,
        t \in {"ones", "mixed"} }

\* The synthetic LUT lines [0,10], pixels [0,10], f(line, pixel) = line + pixel on a
\* 16 x 16 image.
PlaneInputs ==
    { <<c, Raster({"VV"}, 16, 16, "float64", "ramp"),
        LutDataset({"VV"}, <<0, 10>>, <<0, 10>>, "plane")>> : c \in CorrectionCalls }

WalkIdle ==
    /\ folder = [exists |-> FALSE, files |-> {}, unreadable |-> {}]
    /\ representation_type = "None"
    /\ io = <<>>
    /\ xml_files = {}
    /\ visited = <<>>
    /\ lut_dict = EmptyMap

\* A call of apply_correction (directly or through its two callers), at the entry
\* of its loop.
InitCorrection ==
    /\ \E inp \in NumericInputs \cup BandInputs \cup PlaneInputs :
         /\ fn = inp[1][1]
         /\ type = inp[1][2]
         /\ ds = inp[2]
         /\ lut_ds = inp[3]
    /\ todo = Keys(ds.bands, lut_ds.bands)
    /\ lut_interp = EmptyMap
    /\ corrected_dict = EmptyMap
    /\ pc = "loop"
    /\ result = NoResult
    /\ WalkIdle

CorrectionFns == {"apply_correction", "remove_thermal_noise", "radiometric_calibration"}

\* The corrected array of one band.
Corrected(tag, dtype, da, interp, H, W) ==
    [l \in 0..(H - 1) |->
       [p \in 0..(W - 1) |->
          IF Branch(tag) = "thermal"
          THEN ThermalNoiseRemoval(dtype, da[l][p], interp[l][p])
          ELSE Radiometric(dtype, da[l][p], interp[l][p])]]

\* One iteration of "for pol in list(ds.keys())", the bands in the order the
\* dataset holds them (any order): look the LUT up (KeyError for a band the LUT
\* dataset lacks), interpolate it on the image grid, apply the formula the tag
\* selects.
CorrectBand ==
    /\ fn \in CorrectionFns
    /\ pc = "loop"
    /\ \E pol \in todo :
         /\ todo' = todo \ {pol}
         /\ IF pol \notin lut_ds.bands
            THEN /\ Raise("KeyError", "No variable named", NoName)
                 /\ UNCHANGED <<lut_interp, corrected_dict>>
            ELSE LET interp == Interp2(lut_ds.line, lut_ds.pixel, lut_ds.data[pol],
                                       ds.H, ds.W)
                 IN  /\ lut_interp' = [b \in DOMAIN lut_interp \cup {pol} |->
                                         IF b = pol THEN interp ELSE lut_interp[b]]
                     /\ corrected_dict' =
                          IF Branch(type) = "none"
                          THEN corrected_dict
                          ELSE [b \in DOMAIN corrected_dict \cup {pol} |->
                                  IF b = pol
                                  THEN Corrected(type, ds.dtype, ds.data[pol], interp,
                                                 ds.H, ds.W)
                                  ELSE corrected_dict[b]]
                     /\ UNCHANGED <<pc, result>>
    /\ UNCHANGED <<fn, type, ds, lut_ds, walkVars>>

\* End of the loop: xr.Dataset(corrected_dict) is returned.
ReturnCorrected ==
    /\ fn \in CorrectionFns
    /\ pc = "loop"
    /\ todo = {}
    /\ pc' = "returned"
    /\ result' = [exc |-> "None", msg |-> "", name |-> NoName, data |-> corrected_dict]
    /\ UNCHANGED <<fn, corrVars, walkVars>>

NextCorrection == CorrectBand \/ ReturnCorrected

SpecCorrection == InitCorrection /\ [][NextCorrection]_vars

----------------------------------------------------------------------------
(* Properties of the directory walk                                        *)

Parsers == {"parse_thermal_noise_removal_lut", "parse_radiometric_calibration_lut"}

\* The labels among VV, VH, HH, HV that occur in a name, whatever the case.
Matches(name) ==
    {b \in Bands : \E k \in 1..Len(polarizations) :
                      b = Upper(polarizations[k]) /\ Contains(Lower(name), polarizations[k])}

Priority == <<"VV", "VH", "HH", "HV">>

\* b is the first label of Priority that occurs in the name.
IsFirstMatch(name, b) ==
    \E k \in 1..Len(Priority) :
        /\ Priority[k] = b
        /\ b \in Matches(name)
        /\ \A j \in 1..(k - 1) : Priority[j] \notin Matches(name)

\* The call raised "Polarization type not found in file name: <name>".
RejectedName(name) ==
    /\ pc = "error"
    /\ result.msg = "Polarization type not found in file name"
    /\ result.name = name

\* C5 as stated: in each of the three functions a name is accepted only when
\* exactly one of VV, VH, HH, HV occurs in it (case-insensitively), it then
\* resolves to that label, and a rejected name has none or several.
C5_ExactlyOneMatchRequired ==
    fn \in WalkFns =>
        /\ \A i \in 1..Len(visited) :
              /\ Cardinality(Matches(visited[i][1])) = 1
              /\ visited[i][2] \in Matches(visited[i][1])
        /\ \A name \in folder.files :
              RejectedName(name) => Cardinality(Matches(name)) # 1

\* C5 amended: in each of the three functions a name in which none of the four
\* labels occurs is rejected, and a name in which one or more occur resolves to
\* the first of VV, VH, HH, HV that occurs in it; several matches are not rejected.
C5_FirstMatchInPriorityOrder ==
    fn \in WalkFns =>
        /\ \A i \in 1..Len(visited) : IsFirstMatch(visited[i][1], visited[i][2])
        /\ \A name \in folder.files : RejectedName(name) => Matches(name) = {}

\* A name holding two labels was resolved, and the call returned.
C5_Witness ==
    /\ pc = "returned"
    /\ \E i \in 1..Len(visited) : Cardinality(Matches(visited[i][1])) > 1

InvalidOptionCall ==
    /\ fn = "parse_radiometric_calibration_lut"
    /\ representation_type \notin {"sigmaNought", "betaNought", "gamma"}

\* C6: parse_radiometric_calibration_lut called with a representation_type outside
\* {sigmaNought, betaNought, gamma} makes no file-system access at all (no
\* existence check, no listing, no read): its first step raises the error, and in
\* every state of the call the log of accesses is empty, whatever the folder.
C6_InvalidOptionBeforeIO ==
    /\ [](InvalidOptionCall =>
            /\ io = <<>>
            /\ pc \in {"entry", "error"}
            /\ pc = "error" => result.exc = "Exception" /\ result.data = EmptyMap)
    /\ [][(InvalidOptionCall /\ pc = "entry") => (pc' = "error" /\ io' = <<>>)]_vars

\* An invalid option was rejected although the folder holds a readable calibration
\* document.
C6_Witness ==
    /\ InvalidOptionCall
    /\ pc = "error"
    /\ folder.exists
    /\ \E f \in folder.files \ folder.unreadable :
          Selected(fn, f) /\ Matches(f) # {}

\* The documents of a parser: prefix noise resp. calibration, suffix .xml,
\* case-insensitive.
IsDocument(f, name) ==
    LET prefix == IF f = "parse_thermal_noise_removal_lut"
                  THEN <<"n", "o", "i", "s", "e">>
                  ELSE <<"c", "a", "l", "i", "b", "r", "a", "t", "i", "o", "n">>
    IN  /\ StartsWith(Lower(name), prefix)
        /\ EndsWith(Lower(name), <<".", "x", "m", "l">>)

----------------------------------------------------------------------------
(* Properties of apply_correction                                          *)

Lines == 0..(ds.H - 1)

Pixels == 0..(ds.W - 1)

\* max(x - y, 0) on rationals
MaxDiffZero(x, y) == IF RPos(RSub(x, y)) THEN RSub(x, y) ELSE Num(0)

\* C1: remove_thermal_noise returns, for every band and pixel,
\* max(intensity^2 - noise_interp, 0), intensity^2 being the square of the
\* sample's value; every output pixel is >= 0.
C1_ThermalNoiseFormula ==
    (fn = "remove_thermal_noise" /\ pc = "returned") =>
        \A b \in ds.bands : \A l \in Lines : \A p \in Pixels :
            LET x == ds.data[b][l][p]
                out == result.data[b][l][p]
            IN  /\ out = MaxDiffZero(Num(x * x), lut_interp[b][l][p])
                /\ IsFinite(out) /\ out[1] >= 0

\* C2: radiometric_calibration returns, for every band and pixel,
\* intensity / calibration_interp^2 with the intensity taken as is (not squared):
\* out * calibration_interp^2 = intensity wherever calibration_interp is not zero,
\* and the quotient of a float division by zero elsewhere.
C2_RadiometricFormula ==
    (fn = "radiometric_calibration" /\ pc = "returned") =>
        \A b \in ds.bands : \A l \in Lines : \A p \in Pixels :
            LET x == ds.data[b][l][p]
                cal == lut_interp[b][l][p]
                out == result.data[b][l][p]
            IN  IF cal[1] # 0
                THEN IsFinite(out) /\ RMul(out, RMul(cal, cal)) = Num(x)
                ELSE out = <<Sign(x), 0>>

\* A uint16 sample of 256 or more was calibrated with a value other than 0 and 1.
C2_Witness ==
    /\ fn = "radiometric_calibration"
    /\ pc = "returned"
    /\ ds.dtype = "uint16"
    /\ \E b \in ds.bands : \E l \in Lines : \E p \in Pixels :
          /\ ds.data[b][l][p] >= 256
          /\ lut_interp[b][l][p][1] # 0
          /\ lut_interp[b][l][p] # Num(1)

\* C3: radiometric_calibration never returns normally when the interpolated
\* calibration value is zero at some pixel, and never returns a pixel that is
\* infinite or undefined.
C3_ZeroCalibrationDetected ==
    (fn = "radiometric_calibration" /\ pc = "returned") =>
        \A b \in ds.bands : \A l \in Lines : \A p \in Pixels :
            /\ lut_interp[b][l][p][1] # 0
            /\ IsFinite(result.data[b][l][p])

Wrappers == {"remove_thermal_noise", "radiometric_calibration"}

\* C4: remove_thermal_noise and radiometric_calibration return a dataset whose
\* bands are exactly the bands the raster and the LUT dataset share, and they
\* return only when the LUT dataset holds every band of the raster: with a raster
\* band the LUT dataset lacks the call never returns, and when it has raised
\* (KeyError) it holds no result.
C4_BandSetFidelity ==
    fn \in Wrappers =>
        /\ pc = "returned" =>
              /\ DOMAIN result.data = ds.bands \cap lut_ds.bands
              /\ ds.bands \subseteq lut_ds.bands
        /\ ~(ds.bands \subseteq lut_ds.bands) => pc # "returned"
        /\ pc # "returned" => result.data = EmptyMap
        /\ pc = "error" => result.exc = "KeyError" /\ ~(ds.bands \subseteq lut_ds.bands)

\* A call failed on a band the LUT dataset lacks after it had corrected another band.
C4_Witness ==
    /\ fn \in Wrappers
    /\ pc = "error"
    /\ corrected_dict # EmptyMap
    /\ result.data = EmptyMap

\* C8: anchor exactness.  At every image coordinate (l, p) that is a line and a
\* pixel of the LUT, the interpolated value is the stored anchor value.
C8_AnchorExactness ==
    fn \in CorrectionFns =>
        \A b \in DOMAIN lut_interp :
            \A i \in 1..Len(lut_ds.line) : \A j \in 1..Len(lut_ds.pixel) :
                (lut_ds.line[i] \in Lines /\ lut_ds.pixel[j] \in Pixels) =>
                    lut_interp[b][lut_ds.line[i]][lut_ds.pixel[j]]
                        = Num(lut_ds.data[b][i][j])

\* Three line anchors and two pixel anchors lie on the image, with values that
\* differ, and the LUT was interpolated.
C8_Witness ==
    /\ fn \in CorrectionFns
    /\ "VV" \in DOMAIN lut_interp
    /\ Len(lut_ds.line) = 3 /\ lut_ds.line[3] \in Lines
    /\ Len(lut_ds.pixel) = 2 /\ lut_ds.pixel[2] \in Pixels
    /\ lut_ds.data["VV"][1][1] # lut_ds.data["VV"][2][1]
    /\ lut_ds.data["VV"][2][1] # lut_ds.data["VV"][3][2]

\* The value at x of the line through (x1, y1) and (x2, y2).
OnLine(x1, y1, x2, y2, x) == Rat(y1 * (x2 - x1) + (y2 - y1) * (x - x1), x2 - x1)

\* C9: extrapolation linearity.  Outside the anchors of an axis (at an anchor of
\* the other axis) the interpolated value lies on the line through the nearest
\* two anchors of that axis, not on the edge value; and a LUT whose anchor values
\* are line + pixel interpolates to l + p at every image coordinate, (15, 15) of
\* the LUT with lines [0,10] and pixels [0,10] included.
C9_ExtrapolationLinearity ==
    fn \in CorrectionFns =>
        \A b \in DOMAIN lut_interp :
            LET line == lut_ds.line
                pixel == lut_ds.pixel
                v == lut_ds.data[b]
                n == Len(line)
                m == Len(pixel)
            IN  /\ \A l \in Lines : \A j \in 1..m :
                      pixel[j] \in Pixels =>
                        /\ l > line[n] =>
                             lut_interp[b][l][pixel[j]]
                               = OnLine(line[n - 1], v[n - 1][j], line[n], v[n][j], l)
                        /\ l < line[1] =>
                             lut_interp[b][l][pixel[j]]
                               = OnLine(line[1], v[1][j], line[2], v[2][j], l)
                /\ \A p \in Pixels : \A i \in 1..n :
                      line[i] \in Lines =>
                        /\ p > pixel[m] =>
                             lut_interp[b][line[i]][p]
                               = OnLine(pixel[m - 1], v[i][m - 1], pixel[m], v[i][m], p)
                        /\ p < pixel[1] =>
                             lut_interp[b][line[i]][p]
                               = OnLine(pixel[1], v[i][1], pixel[2], v[i][2], p)
                /\ (\A i \in 1..n : \A j \in 1..m : v[i][j] = line[i] + pixel[j]) =>
                      \A l \in Lines : \A p \in Pixels : lut_interp[b][l][p] = Num(l + p)

\* The LUT with lines [0,10], pixels [0,10] and values line + pixel was
\* interpolated on a 16 x 16 image, and its value at (15, 15) is 30.
C9_Witness ==
    /\ fn \in CorrectionFns
    /\ lut_ds.line = <<0, 10>> /\ lut_ds.pixel = <<0, 10>>
    /\ ds.H = 16 /\ ds.W = 16
    /\ "VV" \in DOMAIN lut_interp
    /\ lut_ds.data["VV"] = << <<0, 10>>, <<10, 20>> >>
    /\ lut_interp["VV"][15][15] = Num(30)

UnknownTagCall ==
    /\ fn = "apply_correction"
    /\ type \notin {"thermal_noise_removal", "radiometric_calibration"}

\* C10: apply_correction called with a tag other than thermal_noise_removal and
\* radiometric_calibration corrects nothing and raises nothing for the tag: it
\* returns a dataset without bands after interpolating every band of the raster,
\* and the only error it can end in is the KeyError of a band the LUT dataset lacks.
C10_UnknownTagEmptyResult ==
    UnknownTagCall =>
        /\ corrected_dict = EmptyMap
        /\ pc = "returned" =>
              /\ result.data = EmptyMap
              /\ result.exc = "None"
              /\ DOMAIN lut_interp = ds.bands
        /\ pc = "error" => result.exc = "KeyError" /\ ~(ds.bands \subseteq lut_ds.bands)
        /\ (pc = "loop" /\ ds.bands \subseteq lut_ds.bands) =>
              todo \cup DOMAIN lut_interp = ds.bands

\* A call with an unknown tag returned after interpolating two bands.
C10_Witness ==
    /\ UnknownTagCall
    /\ pc = "returned"
    /\ Cardinality(DOMAIN lut_interp) >= 2
    /\ result.data = EmptyMap

====
